---- MODULE Spec2Model ----
(***************************************************************************)
(* State-machine model of the RePub class of src/src/core.ts: the package  *)
(* manifest and spine, the EPUB3 navigation document, the NCX, the archive *)
(* and the content tree, and the public operations that keep them in step. *)
(*                                                                         *)
(* Strings are sequences of tokens.  A token stands for a run of           *)
(* characters that the code never looks inside ("1", "x" for ".xhtml",     *)
(* "png" for ".png"); the separators the code does look at are tokens of   *)
(* their own: "/" , "#" and "..".  Substring tests, split('#') and the     *)
(* path helpers are computed on the token sequences.  A missing XML        *)
(* attribute reads as the empty string, as xmldom 0.8 returns it.          *)
(*                                                                         *)
(* A list structure (nested ol/li, nested navPoint, the content tree) is   *)
(* the sequence of its nodes in document order, each with its depth; the   *)
(* subtree of a node is the run of deeper nodes that follows it.  Labels,  *)
(* content types and roles are carried by no operation and are left out.   *)
(***************************************************************************)
EXTENDS Integers, Sequences, FiniteSets, TLC

VARIABLES zip, manifest, spine, navigation, ncx, contents, metadata,
          call, pre, nops

vars == <<zip, manifest, spine, navigation, ncx, contents, metadata,
          call, pre, nops>>

----------------------------------------------------------------------------
(* Bounds *)

MaxToc == 3
MaxOps == 1

----------------------------------------------------------------------------
(* Strings *)

EmptyStr == <<>>

RECURSIVE FirstPos(_, _, _)
FirstPos(s, t, i) ==
  IF i > Len(s) THEN 0
  ELSE IF s[i] = t THEN i ELSE FirstPos(s, t, i + 1)

RECURSIVE LastPos(_, _, _)
LastPos(s, t, i) ==
  IF i < 1 THEN 0
  ELSE IF s[i] = t THEN i ELSE LastPos(s, t, i - 1)

\* s.split('#')[0]
SplitHash0(s) ==
  LET Before(i) == IF i = 0 THEN s ELSE SubSeq(s, 1, i - 1)
  IN Before(FirstPos(s, "#", 1))

\* s.includes(t)
Includes(s, t) ==
  /\ Len(t) <= Len(s)
  /\ \E i \in 0..(Len(s) - Len(t)) : SubSeq(s, i + 1, i + Len(t)) = t

\* s.startsWith(t)
StartsWith(s, t) ==
  /\ Len(t) <= Len(s)
  /\ SubSeq(s, 1, Len(t)) = t

RECURSIVE StripSlashes(_)
StripSlashes(p) ==
  IF p = <<>> THEN p
  ELSE IF Head(p) = "/" THEN StripSlashes(Tail(p))
  ELSE IF p[Len(p)] = "/" THEN StripSlashes(SubSeq(p, 1, Len(p) - 1))
  ELSE p

\* this.path.join(a, b)
PathJoin(a, b) ==
  LET Joined(x, y) == IF x = <<>> THEN y
                      ELSE IF y = <<>> THEN x
                      ELSE x \o <<"/">> \o y
  IN Joined(StripSlashes(a), StripSlashes(b))

\* this.path.dirname(p)
PathDirname(p) ==
  LET Before(i) == IF i = 0 THEN <<>> ELSE SubSeq(p, 1, i - 1)
  IN Before(LastPos(p, "/", Len(p)))

contentPath == <<"O", "/", "opf">>

\* path of a package-relative href inside the archive
ZipPath(href) == PathJoin(PathDirname(contentPath), href)

----------------------------------------------------------------------------
(* Sequences of nodes with depths *)

Range(s) == {s[i] : i \in 1..Len(s)}

MaxOf(S) == CHOOSE x \in S : \A y \in S : y <= x

\* last position of the subtree rooted at position p
SubtreeEnd(s, p) ==
  p + Cardinality({q \in (p + 1)..Len(s) :
                     \A r \in (p + 1)..q : s[r].depth > s[p].depth})

InSubtree(s, p, q) == q >= p /\ q <= SubtreeEnd(s, p)

\* the members of a set of positions in increasing order
Ascending(S) ==
  [j \in 1..Cardinality(S) |->
     CHOOSE x \in S : Cardinality({y \in S : y < x}) = j - 1]

\* the child nodes of the list itself
TopPositions(s) == Ascending({i \in 1..Len(s) : s[i].depth = 0})

\* the child nodes of node p
ChildPositions(s, p) ==
  Ascending({i \in (p + 1)..SubtreeEnd(s, p) : s[i].depth = s[p].depth + 1})

\* the sequence without the positions in the set ps
RemovePositions(s, ps) ==
  LET Kept(keep) == [j \in 1..Len(keep) |-> s[keep[j]]]
  IN Kept(Ascending((1..Len(s)) \ ps))

\* s with node x inserted before position p (p = Len(s) + 1 appends)
InsertAt(s, p, x) == SubSeq(s, 1, p - 1) \o <<x>> \o SubSeq(s, p, Len(s))

\* position of the first element that satisfies Test, 0 if none
FindFirst(s, Test(_)) ==
  LET Least(hits) ==
        IF hits = {} THEN 0 ELSE CHOOSE i \in hits : \A j \in hits : i <= j
  IN Least({i \in 1..Len(s) : Test(s[i])})

----------------------------------------------------------------------------
(* The book.  Operations are written as operators on a record b with the   *)
(* fields of the instance, so that one operation can call another; an      *)
(* action applies one public operation and assigns the fields.  A value    *)
(* that the code computes once and reads several times is the argument of  *)
(* a local operator.                                                       *)
(*   zip        : archive path -> file                                     *)
(*   manifest   : sequence of items [id, href, mt, props]                  *)
(*   spine      : sequence of idrefs                                       *)
(*   navigation : [present, navs], navs the nav sections in document order,*)
(*                each [type, ol, items]; items are the li of its list,    *)
(*                each [href, depth] with href the href of its anchor      *)
(*   ncx        : [present, points], points the navPoints [src, depth, po] *)
(*                with po the playOrder attribute (0 when absent)          *)
(*   contents   : the content tree, elements [id, href, index, depth]      *)
(*   metadata   : [cover, guide, stamped] of the package descriptor        *)

Book == [zip |-> zip, manifest |-> manifest, spine |-> spine,
         navigation |-> navigation, ncx |-> ncx, contents |-> contents,
         metadata |-> metadata]

\* JSZip.remove: a file, or else every entry below the folder of that name
ZipRemove(z, path) ==
  IF path \in DOMAIN z
  THEN [q \in DOMAIN z \ {path} |-> z[q]]
  ELSE LET folder == IF path # <<>> /\ path[Len(path)] = "/"
                     THEN path ELSE path \o <<"/">>
       IN [q \in {r \in DOMAIN z : ~StartsWith(r, folder)} |-> z[q]]

\* JSZip.file(path, data)
ZipWrite(z, path, data) ==
  [q \in DOMAIN z \cup {path} |-> IF q = path THEN data ELSE z[q]]

\* index of the nav section that holds getElementsByTagName('ol')[0]
FirstOl(nav) == FindFirst(nav.navs, LAMBDA section : section.ol)

----------------------------------------------------------------------------
(* Content Tree Builder *)

\* the simplified type of an epub:type value, "" for undefined
ContentTypeOf(type) ==
  IF Includes(type, <<"front">>) THEN "frontmatter"
  ELSE IF Includes(type, <<"back">>) THEN "backmatter"
  ELSE IF Includes(type, <<"body">>) THEN "bodymatter"
  ELSE ""

LandmarkInfo(type) == [type |-> ContentTypeOf(type), role |-> type]
NoInfo == [type |-> "", role |-> <<>>]

\* the first link of the landmarks section that points to the file of href
\* and carries an epub:type
getLandmarkInfo(b, href) ==
  LET Found(links, k) ==
        IF k = 0 THEN NoInfo ELSE LandmarkInfo(links[k].etype)
      First(links) ==
        Found(links, FindFirst(links, LAMBDA link :
                 /\ link.href # <<>>
                 /\ SplitHash0(link.href) = SplitHash0(href)
                 /\ link.etype # <<>>))
      In(k) == IF k = 0 THEN NoInfo ELSE First(b.navigation.navs[k].items)
  IN IF ~b.navigation.present THEN NoInfo
     ELSE In(FindFirst(b.navigation.navs,
                       LAMBDA nav : nav.type = "landmarks"))

\* the landmark of href, or else the epub:type of the body of its file
getContentType(b, href) ==
  LET OfFile(path) ==
        IF path \notin DOMAIN b.zip \/ b.zip[path].etype = <<>> THEN NoInfo
        ELSE LandmarkInfo(b.zip[path].etype)
      Or(landmarkInfo) ==
        IF landmarkInfo.type # "" THEN landmarkInfo
        ELSE OfFile(ZipPath(SplitHash0(href)))
  IN Or(getLandmarkInfo(b, href))

\* a ContentElement: its children follow it with a depth one more
ContentElement(href, index, depth, info) ==
  [id |-> SplitHash0(href), href |-> href, index |-> index, depth |-> depth,
   type |-> info.type, role |-> info.role]

RECURSIVE processNavigationChildrenWithType(_, _, _, _)
\* the li at positions ps of one ol, numbered from index on
processNavigationChildrenWithType(b, items, ps, index) ==
  IF ps = <<>> THEN [els |-> <<>>, next |-> index]
  ELSE IF items[Head(ps)].href = <<>>
  THEN processNavigationChildrenWithType(b, items, Tail(ps), index)
  ELSE LET el == ContentElement(items[Head(ps)].href, index,
                                items[Head(ps)].depth,
                                getContentType(b, items[Head(ps)].href))
           Joined(kids, rest) == [els |-> <<el>> \o kids.els \o rest.els,
                                  next |-> rest.next]
           Rest(kids) ==
             Joined(kids, processNavigationChildrenWithType(
                             b, items, Tail(ps), kids.next))
       IN Rest(processNavigationChildrenWithType(
                  b, items, ChildPositions(items, Head(ps)), index + 1))

RECURSIVE processNCXNavPointWithType(_, _, _, _)
RECURSIVE processNCXChildPoints(_, _, _, _)
\* the loop over childNavPoints: each child is numbered from index + 1
processNCXChildPoints(b, points, ps, index) ==
  IF ps = <<>> THEN [els |-> <<>>, next |-> index]
  ELSE LET Joined(c, rest) == [els |-> c.els \o rest.els, next |-> rest.next]
           Rest(c) ==
             Joined(c, processNCXChildPoints(b, points, Tail(ps), c.next))
       IN Rest(processNCXNavPointWithType(b, points, Head(ps), index + 1))

\* the element takes the index left after its children were numbered
processNCXNavPointWithType(b, points, p, currentIndex) ==
  LET Element(kids) ==
        [els |-> <<ContentElement(
                     points[p].src, kids.next, points[p].depth,
                     IF points[p].src = <<>> THEN NoInfo
                     ELSE getContentType(b, points[p].src))>>
                 \o kids.els,
         next |-> kids.next + 1]
  IN Element(processNCXChildPoints(b, points, ChildPositions(points, p),
                                   currentIndex))

RECURSIVE processNCXTopPoints(_, _, _, _)
processNCXTopPoints(b, points, ps, index) ==
  IF ps = <<>> THEN <<>>
  ELSE LET Rest(e) ==
             e.els \o processNCXTopPoints(b, points, Tail(ps), e.next)
       IN Rest(processNCXNavPointWithType(b, points, Head(ps), index))

buildContentsList(b) ==
  IF b.navigation.present
  THEN LET TreeOf(k) ==
             IF k = 0 THEN <<>>
             ELSE processNavigationChildrenWithType(
                     b, b.navigation.navs[k].items,
                     TopPositions(b.navigation.navs[k].items), 0).els
       IN [b EXCEPT !.contents = TreeOf(FirstOl(b.navigation))]
  ELSE IF b.ncx.present
  THEN [b EXCEPT !.contents =
          processNCXTopPoints(b, b.ncx.points, TopPositions(b.ncx.points), 0)]
  ELSE [b EXCEPT !.contents = <<>>]

\* this.contents as an array: the top-level elements
TopContents(b) ==
  LET At(tops) == [j \in 1..Len(tops) |-> b.contents[tops[j]]]
  IN At(TopPositions(b.contents))

----------------------------------------------------------------------------
(* Mutation Engine: removal *)

\* an identifier is a number or a string
Num(n) == [k |-> "num", v |-> n]
Str(x) == [k |-> "str", v |-> x]

\* the identifiers of the elements of els, by id
IdsOf(els) == [j \in 1..Len(els) |-> Str(els[j].id)]

\* s without its element at position p (p = 0: unchanged)
DropAt(s, p) == IF p = 0 THEN s ELSE RemovePositions(s, {p})

\* typeof identifier === 'number' ? this.contents[identifier]
\*                                 : this.contents.find(c => c.id === identifier)
\* as a position of the array tops, 0 for undefined
ResolveTop(tops, ident) ==
  IF ident.k = "num"
  THEN (IF ident.v + 1 <= Len(tops) THEN ident.v + 1 ELSE 0)
  ELSE FindFirst(tops, LAMBDA c : c.id = ident.v)

\* stands for undefined: it has no href, as an element that fails the test
\* (!content || !content.href)
NoContent == ContentElement(<<>>, -1, 0, NoInfo)

\* the element that the lookup by identifier leaves in content
ContentFor(b, identifier) ==
  LET At(tops, c) == IF c = 0 THEN NoContent ELSE tops[c]
      Pick(tops) == At(tops, ResolveTop(tops, identifier))
  IN Pick(TopContents(b))

\* the isMatch test of removeFromNavigation
NavIsMatch(anchorHref, href) ==
  \/ anchorHref = href
  \/ SplitHash0(anchorHref) = href
  \/ Includes(href, SplitHash0(anchorHref))

\* one nav section: every li whose anchor matches goes with its subtree,
\* then a list left without li is removed
RemoveFromNav(nav, href) ==
  LET matched == {p \in 1..Len(nav.items) :
                    /\ nav.items[p].href # <<>>
                    /\ NavIsMatch(nav.items[p].href, href)}
      Left(items) == [nav EXCEPT !.items = items, !.ol = nav.ol /\ items # <<>>]
  IN Left(RemovePositions(nav.items,
             {q \in 1..Len(nav.items) :
                \E p \in matched : InSubtree(nav.items, p, q)}))

removeFromNavigation(b, href) ==
  IF ~b.navigation.present THEN b
  ELSE [b EXCEPT !.navigation.navs =
          [k \in 1..Len(b.navigation.navs) |->
             RemoveFromNav(b.navigation.navs[k], href)]]

\* the first navPoint whose content src is exactly href goes with its subtree
RemoveFromNcx(b, href) ==
  IF ~b.ncx.present THEN b
  ELSE LET Without(p) ==
             IF p = 0 THEN b
             ELSE [b EXCEPT !.ncx.points =
                     RemovePositions(b.ncx.points,
                                     p..SubtreeEnd(b.ncx.points, p))]
       IN Without(FindFirst(b.ncx.points, LAMBDA pt : pt.src = href))

\* result of an operation that may throw
Done(b) == [b |-> b, threw |-> FALSE]
Threw(b) == [b |-> b, threw |-> TRUE]

\* zip.remove of the file at contentURI, then the first manifest item with
\* that href and the first itemref to its id
RemoveFile(b, contentURI) ==
  LET manifestId(m) == IF m = 0 THEN <<>> ELSE b.manifest[m].id
      spineItem(m) ==
        IF manifestId(m) = <<>> THEN 0
        ELSE FindFirst(b.spine, LAMBDA idref : idref = manifestId(m))
      Without(m) == [b EXCEPT !.zip = ZipRemove(b.zip, ZipPath(contentURI)),
                              !.manifest = DropAt(b.manifest, m),
                              !.spine = DropAt(b.spine, spineItem(m))]
  IN Without(FindFirst(b.manifest, LAMBDA item : item.href = contentURI))

_removeContentElement(b, identifier) ==
  LET Remove(content, contentURI) ==
        IF content.href = <<>> THEN Threw(b)
        ELSE Done(RemoveFromNcx(
                     removeFromNavigation(RemoveFile(b, contentURI),
                                          contentURI),
                     content.href))
      Found(content) == Remove(content, SplitHash0(content.href))
  IN Found(ContentFor(b, identifier))

\* the manifest lookup of the split-aware code: the first item whose href
\* is the reference or occurs in it
ManifestItemFor(man, ref) ==
  FindFirst(man, LAMBDA item :
     item.href # <<>> /\ (item.href = ref \/ Includes(ref, item.href)))

\* the id of that item, empty when there is none
ManifestIdFor(b, ref) ==
  LET IdAt(m) == IF m = 0 THEN <<>> ELSE b.manifest[m].id
  IN IdAt(ManifestItemFor(b.manifest, ref))

\* Array.indexOf, 0-based, -1 when absent
IndexOf(s, x) == FindFirst(s, LAMBDA y : y = x) - 1

\* Array.slice(start, end), 0-based, a negative end counts from the end
Slice(s, start, end) ==
  LET Cut(e) == IF start >= e THEN <<>> ELSE SubSeq(s, start + 1, e)
      Clip(e0) == Cut(IF e0 < 0 THEN 0 ELSE IF e0 > Len(s) THEN Len(s) ELSE e0)
  IN Clip(IF end < 0 THEN Len(s) + end ELSE end)

\* endIndex of the chapter that navPoint i starts
ChapterEnd(b, i) ==
  LET End(nextId) ==
        IF nextId = <<>> THEN Len(b.spine) ELSE IndexOf(b.spine, nextId)
  IN End(IF i < Len(b.ncx.points) /\ b.ncx.points[i + 1].src # <<>>
         THEN ManifestIdFor(b, b.ncx.points[i + 1].src)
         ELSE <<>>)

\* the entry that navPoint i writes into the boundaries map:
\* [set, key, val]; set is FALSE where the loop body continues
ChapterBoundary(b, i) ==
  LET Entry(chapterId, spineIndex) ==
        IF chapterId = <<>> \/ spineIndex = -1
        THEN [set |-> FALSE, key |-> <<>>, val |-> <<>>]
        ELSE [set |-> TRUE, key |-> chapterId,
              val |-> Slice(b.spine, spineIndex, ChapterEnd(b, i))]
      Start(chapterId) == Entry(chapterId, IndexOf(b.spine, chapterId))
  IN Start(IF b.ncx.points[i].src = <<>> THEN <<>>
           ELSE ManifestIdFor(b, b.ncx.points[i].src))

\* boundaries.get(id) as [has, val]: the entry of the last navPoint that set it
getChapterBoundaries(b, id) ==
  LET Get(entries) ==
        LET hits == {i \in 1..Len(entries) :
                       entries[i].set /\ entries[i].key = id}
        IN IF hits = {} THEN [has |-> FALSE, val |-> <<>>]
           ELSE [has |-> TRUE, val |-> entries[MaxOf(hits)].val]
  IN Get(IF b.ncx.present
         THEN [i \in 1..Len(b.ncx.points) |-> ChapterBoundary(b, i)]
         ELSE <<>>)

\* boundaries.get(contentId) || [contentId]
RelatedIds(b, contentId) ==
  LET Or(bound) == IF bound.has THEN bound.val ELSE <<contentId>>
  IN Or(getChapterBoundaries(b, contentId))

RECURSIVE RemoveRelated(_, _)
\* the loop over relatedIds
RemoveRelated(b, ids) ==
  IF ids = <<>> THEN b
  ELSE LET Without(m) ==
             IF m = 0 THEN b
             ELSE [b EXCEPT
                     !.zip = IF b.manifest[m].href = <<>> THEN b.zip
                             ELSE ZipRemove(b.zip, ZipPath(b.manifest[m].href)),
                     !.manifest = DropAt(b.manifest, m),
                     !.spine = DropAt(b.spine,
                                 FindFirst(b.spine,
                                           LAMBDA idref : idref = Head(ids)))]
       IN RemoveRelated(
             Without(FindFirst(b.manifest, LAMBDA item : item.id = Head(ids))),
             Tail(ids))

_removeContentElementWithSplits(b, identifier) ==
  LET Remove(content, contentId) ==
        IF content.href = <<>> THEN Threw(b)
        ELSE IF contentId = <<>> THEN Done(b)
        ELSE Done(RemoveFromNcx(
                     removeFromNavigation(
                        RemoveRelated(b, RelatedIds(b, contentId)),
                        content.href),
                     content.href))
      Found(content) == Remove(content, ManifestIdFor(b, content.href))
  IN Found(ContentFor(b, identifier))

\* the rebuild of the tree that ends a public removal; a throw leaves the
\* fields as they are at that point and skips the rebuild
Rebuilt(r) == IF r.threw THEN r ELSE Done(buildContentsList(r.b))

removeContentElement(b, identifier) ==
  Rebuilt(_removeContentElementWithSplits(b, identifier))

RECURSIVE RemoveEachWithSplits(_, _)
RemoveEachWithSplits(b, identifiers) ==
  IF identifiers = <<>> THEN Done(b)
  ELSE LET Then(r) ==
             IF r.threw THEN r ELSE RemoveEachWithSplits(r.b, Tail(identifiers))
       IN Then(_removeContentElementWithSplits(b, Head(identifiers)))

removeContents(b, identifiers) == Rebuilt(RemoveEachWithSplits(b, identifiers))

RECURSIVE RemoveEachPlain(_, _)
RemoveEachPlain(b, identifiers) ==
  IF identifiers = <<>> THEN Done(b)
  ELSE LET Then(r) ==
             IF r.threw THEN r ELSE RemoveEachPlain(r.b, Tail(identifiers))
       IN Then(_removeContentElement(b, Head(identifiers)))

Reverse(s) == [j \in 1..Len(s) |-> s[Len(s) + 1 - j]]

\* allElements.sort((a, b) => a.index - b.index)
SortByIndex(els) ==
  [j \in 1..Len(els) |->
     els[CHOOSE i \in 1..Len(els) :
           Cardinality({h \in 1..Len(els) :
              \/ els[h].index < els[i].index
              \/ (els[h].index = els[i].index /\ h < i)}) = j - 1]]

\* getAllElements: the reduce pushes the top-level elements only
getAllElements(b) == TopContents(b)

\* allElements.filter(el => el.index >= start && el.index <= endIndex)
ElementsInRange(allElements, range) ==
  LET endIndex == IF range.open
                  THEN MaxOf({allElements[i].index : i \in 1..Len(allElements)})
                  ELSE range.end
  IN RemovePositions(allElements,
        {i \in 1..Len(allElements) :
           ~(/\ allElements[i].index >= range.start
             /\ allElements[i].index <= endIndex)})

\* a parsed range is [ok, start, end, open]: "n..." is open, "n..m" is not;
\* ok is FALSE for a string that parseRange rejects
removeContentRange(b, range) ==
  LET Remove(allElements) ==
        IF \/ ~range.ok
           \/ FindFirst(allElements, LAMBDA el : el.index >= range.start) = 0
        THEN Threw(b)
        ELSE Rebuilt(RemoveEachPlain(
                b, Reverse(IdsOf(ElementsInRange(allElements, range)))))
  IN Remove(SortByIndex(getAllElements(b)))

\* position in b.contents of the first element, in depth-first order,
\* whose index field is index; 0 for null
findContentElementByIndex(b, index) ==
  FindFirst(b.contents, LAMBDA el : el.index = index)

\* Array.from(new Set(ids)): first occurrences in order
Distinct(s) ==
  RemovePositions(s, {i \in 1..Len(s) : \E j \in 1..(i - 1) : s[j] = s[i]})

\* this.contents.map(element => element.id)
TopIds(b) ==
  LET Ids(tops) == [j \in 1..Len(tops) |-> tops[j].id]
  IN Ids(TopContents(b))

\* keep is the set of the entries of the keep array
removeExcept(b, keep) ==
  LET idsToKeep == {IF e.k = "num"
                    THEN b.contents[findContentElementByIndex(b, e.v)].id
                    ELSE e.v : e \in keep}
      Remove(idsToRemove) ==
        Rebuilt(RemoveEachWithSplits(
           b, Reverse([j \in 1..Len(idsToRemove) |-> Str(idsToRemove[j])])))
      Filter(allIds) ==
        Remove(RemovePositions(allIds, {i \in 1..Len(allIds) :
                                          allIds[i] \in idsToKeep}))
  IN IF \E e \in keep : e.k = "num" /\ findContentElementByIndex(b, e.v) = 0
     THEN Threw(b)
     ELSE Filter(Distinct(TopIds(b)))

\* kept is the set of positions of TopContents(b) that filterFn accepts
removeExceptWhere(b, kept) ==
  Rebuilt(RemoveEachPlain(
     b, Reverse(IdsOf(RemovePositions(TopContents(b), kept)))))

----------------------------------------------------------------------------
(* Files of the archive.  A file is [kind, links, refs, bytes, items]:     *)
(*   "doc" : a content document or stylesheet; links are the values of its *)
(*           href attributes in document order, refs the other references  *)
(*           in its text (src attributes, url() arguments)                 *)
(*   "bin" : binary data, bytes                                            *)
(*   "opf" : the serialized package descriptor, items its manifest, refs   *)
(*           its spine                                                     *)
(*   "nav" : the serialized navigation document, items its nav sections    *)
(*   "ncx" : the serialized NCX, items its navPoints                       *)

DocFile(links, refs) ==
  [kind |-> "doc", links |-> links, refs |-> refs, bytes |-> <<>>,
   items |-> <<>>, etype |-> <<>>]
\* a document whose body element carries epub:type="etype"
TypedDocFile(links, refs, etype) ==
  [DocFile(links, refs) EXCEPT !.etype = etype]
BinFile(bytes) ==
  [kind |-> "bin", links |-> <<>>, refs |-> <<>>, bytes |-> bytes,
   items |-> <<>>, etype |-> <<>>]
OpfFile(man, sp) ==
  [kind |-> "opf", links |-> <<>>, refs |-> sp, bytes |-> <<>>,
   items |-> man, etype |-> <<>>]
NavFile(nav) ==
  [kind |-> "nav", links |-> <<>>, refs |-> <<>>, bytes |-> <<>>,
   items |-> nav.navs, etype |-> <<>>]
NcxFile(nx) ==
  [kind |-> "ncx", links |-> <<>>, refs |-> <<>>, bytes |-> <<>>,
   items |-> nx.points, etype |-> <<>>]

XHTML == "application/xhtml+xml"
NCXTYPE == "application/x-dtbncx+xml"
CSS == "text/css"

Item(id, href, mt, props) ==
  [id |-> id, href |-> href, mt |-> mt, props |-> props]

----------------------------------------------------------------------------
(* Mutation Engine: insertion *)

\* `${id}.xhtml`
FileNameOf(id) == id \o <<"x">>

\* createXhtmlWrapper puts the content into a document of its own; body is
\* the [links, refs] of the content the caller passes
createXhtmlWrapper(body) == DocFile(body.links, body.refs)

\* the new file, its manifest item and its itemref, which goes before the
\* itemref of the element at index
InsertFile(b, body, index, id) ==
  LET Placed(man, tops) ==
        LET referenceSpineIndex(m) ==
              IF m = 0 THEN 0
              ELSE FindFirst(b.spine, LAMBDA idref : idref = man[m].id)
            SpineWith(r) == IF r = 0 THEN Append(b.spine, id)
                            ELSE InsertAt(b.spine, r, id)
            With(m) ==
              [b EXCEPT !.zip = ZipWrite(b.zip, ZipPath(FileNameOf(id)),
                                         createXhtmlWrapper(body)),
                        !.manifest = man,
                        !.spine = SpineWith(referenceSpineIndex(m))]
        IN With(IF index < Len(tops)
                THEN FindFirst(man, LAMBDA item :
                        SplitHash0(item.href) = tops[index + 1].id)
                ELSE 0)
  IN Placed(Append(b.manifest, Item(id, FileNameOf(id), XHTML, <<>>)),
            TopContents(b))

\* navigation: the new li goes into the first ol, before navItems[index];
\* insertBefore throws when the reference node is no child of the list
InsertNavItem(b, fileName, index) ==
  LET li == [href |-> fileName, depth |-> 0]
      Into(k) ==
        IF k = 0 THEN Done(b)
        ELSE IF /\ index < Len(b.navigation.navs[k].items)
                /\ b.navigation.navs[k].items[index + 1].depth # 0
        THEN Threw(b)
        ELSE Done([b EXCEPT !.navigation.navs[k].items =
                     IF index >= Len(@) THEN Append(@, li)
                     ELSE InsertAt(@, index + 1, li)])
  IN Into(IF b.navigation.present THEN FirstOl(b.navigation) ELSE 0)

\* NCX: the new navPoint goes into navMap, before existingNavPoints[index]
InsertNavPoint(b, fileName, index) ==
  LET pts == b.ncx.points
      navPoint == [src |-> fileName, depth |-> 0,
                   po |-> IF pts # <<>> /\ pts[1].po # 0 THEN index + 1 ELSE 0]
  IN IF ~b.ncx.present THEN Done(b)
     ELSE IF index < Len(pts) /\ pts[index + 1].depth # 0 THEN Threw(b)
     ELSE Done([b EXCEPT !.ncx.points =
                  IF index >= Len(pts) THEN Append(pts, navPoint)
                  ELSE InsertAt(pts, index + 1, navPoint)])

insertContentAtIndex(b, body, index, id) ==
  LET WithPoint(r) ==
        IF r.threw THEN r
        ELSE Rebuilt(InsertNavPoint(r.b, FileNameOf(id), index))
      WithItem(b1) == WithPoint(InsertNavItem(b1, FileNameOf(id), index))
  IN WithItem(InsertFile(b, body, index, id))

insertContent(b, body, at, id) == insertContentAtIndex(b, body, at, id)

appendContent(b, body, id) ==
  insertContentAtIndex(b, body, Len(TopContents(b)), id)

prependContent(b, body, id) == insertContentAtIndex(b, body, 0, id)

----------------------------------------------------------------------------
(* Asset API *)

\* the extension is the last token of a path
getMediaType(path) ==
  LET TypeOf(ext) ==
        CASE ext \in {"jpg", "jpeg"} -> "image/jpeg"
          [] ext = "png" -> "image/png"
          [] ext = "gif" -> "image/gif"
          [] ext = "svg" -> "image/svg+xml"
          [] ext = "webp" -> "image/webp"
          [] ext = "css" -> "text/css"
          [] ext = "ttf" -> "font/ttf"
          [] ext = "otf" -> "font/otf"
          [] ext = "woff" -> "font/woff"
          [] ext = "woff2" -> "font/woff2"
          [] ext = "mp3" -> "audio/mpeg"
          [] ext = "aac" -> "audio/aac"
          [] ext = "wav" -> "audio/wav"
          [] ext = "mp4" -> "video/mp4"
          [] ext = "webm" -> "video/webm"
          [] ext \in {"x", "html"} -> "application/xhtml+xml"
          [] ext = "xml" -> "application/xml"
          [] OTHER -> "application/octet-stream"
  IN TypeOf(IF path = <<>> THEN "" ELSE path[Len(path)])

RECURSIVE StripLeadingSlashes(_)
StripLeadingSlashes(p) ==
  IF p # <<>> /\ Head(p) = "/" THEN StripLeadingSlashes(Tail(p)) ELSE p

\* id is the identifier generateUniqueId returns
insertAsset(b, path, data, id) ==
  LET Put(normalizedPath, mediaType) ==
        LET Entry(e) ==
              IF e # 0 THEN [b.manifest EXCEPT ![e].mt = mediaType]
              ELSE Append(b.manifest,
                          Item(id, normalizedPath, mediaType, <<>>))
        IN [b EXCEPT !.zip = ZipWrite(b.zip, ZipPath(normalizedPath), data),
                     !.manifest =
                        Entry(FindFirst(b.manifest, LAMBDA item :
                                           item.href = normalizedPath))]
      At(normalizedPath) == Put(normalizedPath, getMediaType(normalizedPath))
  IN At(StripLeadingSlashes(path))

----------------------------------------------------------------------------
(* Cover resolution and Asset Integrity Module *)

\* position of the cover item in the manifest, 0 for null
getCoverItem(b) ==
  LET man == b.manifest
      \* Method 1: the first meta name="cover"; its content names the id
      coverId == IF b.metadata.cover = <<>> THEN <<>>
                 ELSE Head(b.metadata.cover)
      \* Method 3: guide references of type cover; the last one that
      \* resolves is kept
      ByGuide(hits) ==
        IF hits = {} THEN 0
        ELSE FindFirst(man, LAMBDA item :
                item.href = b.metadata.guide[MaxOf(hits)].href)
      Method3 ==
        ByGuide({g \in 1..Len(b.metadata.guide) :
                   /\ b.metadata.guide[g].type = "cover"
                   /\ b.metadata.guide[g].href # <<>>
                   /\ \E i \in 1..Len(man) :
                         man[i].href = b.metadata.guide[g].href})
      FirstOf(m1, m2) == IF m1 # 0 THEN m1 ELSE IF m2 # 0 THEN m2 ELSE Method3
  IN FirstOf(IF coverId = <<>> THEN 0
             ELSE FindFirst(man, LAMBDA item : item.id = coverId),
             \* Method 2: properties="cover-image"
             FindFirst(man, LAMBDA item : item.props = <<"cover-image">>))

IsMediaType(mt) ==
  mt \in {"image/jpeg", "image/png", "image/gif", "image/svg+xml",
          "image/webp", "audio/mpeg", "audio/aac", "audio/wav",
          "video/mp4", "video/webm"}

\* path.replace(/^\.?\/+/, '')
normalizePath(path) == StripLeadingSlashes(path)

\* the attribute values and references that occur in the text of a file
RawValues(file) ==
  CASE file.kind = "doc" -> Range(file.links) \cup Range(file.refs)
    [] file.kind = "nav" ->
         UNION {{file.items[k].items[i].href :
                   i \in 1..Len(file.items[k].items)} :
                k \in 1..Len(file.items)}
    [] file.kind = "ncx" -> {file.items[i].src : i \in 1..Len(file.items)}
    [] OTHER -> {}

\* the patterns are escaped before they are compiled, so each is searched
\* as literal text: the two paths, '#id' and the quoted id can occur in a
\* document; the escaped url( ) and xlink:href expressions cannot
TextReferences(file, scannedHref, media) ==
  LET Found(mediaPath, relativePath) ==
        \E v \in RawValues(file) :
           \/ Includes(v, mediaPath)
           \/ Includes(v, relativePath)
           \/ Includes(v, <<"#">> \o media.id)
           \/ v = media.id
      Paths(mediaPath) ==
        Found(mediaPath,
              normalizePath(PathJoin(PathDirname(scannedHref), mediaPath)))
  IN Paths(normalizePath(media.href))

\* the manifest positions of the orphaned media items
OrphanPositions(b) ==
  LET man == b.manifest
      mediaItems(cover) ==
        {i \in 1..Len(man) :
           /\ IsMediaType(man[i].mt)
           /\ (cover = 0 \/ man[i].id # man[cover].id)
           /\ man[i].id # <<>> /\ man[i].href # <<>>
           \* mediaMap is keyed by id
           /\ ~\E j \in 1..(i - 1) :
                 /\ man[j].id = man[i].id
                 /\ IsMediaType(man[j].mt) /\ man[j].href # <<>>}
      contentItems == {i \in 1..Len(man) :
                         /\ man[i].mt \in {XHTML, NCXTYPE, CSS}
                         /\ man[i].href # <<>>
                         /\ ZipPath(man[i].href) \in DOMAIN b.zip}
      \* a later item of the same id replaces the href in the map
      Entry(i) == man[MaxOf({j \in i..Len(man) :
                               /\ man[j].id = man[i].id
                               /\ IsMediaType(man[j].mt)
                               /\ man[j].href # <<>>})]
      Unreferenced(media) ==
        {i \in media :
           ~\E c \in contentItems :
              TextReferences(b.zip[ZipPath(man[c].href)], man[c].href,
                             Entry(i))}
  IN Unreferenced(mediaItems(getCoverItem(b)))

RECURSIVE RemoveOrphans(_, _)
RemoveOrphans(b, ids) ==
  IF ids = <<>> THEN b
  ELSE LET Without(m) ==
             IF m = 0 THEN b
             ELSE [b EXCEPT !.zip = IF b.manifest[m].href = <<>> THEN b.zip
                                    ELSE ZipRemove(b.zip,
                                                   ZipPath(b.manifest[m].href)),
                            !.manifest = DropAt(b.manifest, m)]
       IN RemoveOrphans(
             Without(FindFirst(b.manifest, LAMBDA item : item.id = Head(ids))),
             Tail(ids))

\* findOrphanedMedia leaving the removal loop after the first orphan
findOrphanedMediaRemovesOne(b, remove) ==
  LET Result(ids) ==
        [b |-> IF remove THEN RemoveOrphans(b, SubSeq(ids, 1, 1)) ELSE b,
         ret |-> ids]
      IdsAt(orphans) ==
        Result([j \in 1..Len(orphans) |-> b.manifest[orphans[j]].id])
  IN IdsAt(Ascending(OrphanPositions(b)))

\* [b, ret]: the book afterwards and the ids returned
findOrphanedMedia(b, remove) ==
  LET Result(ids) ==
        [b |-> IF remove THEN RemoveOrphans(b, ids) ELSE b, ret |-> ids]
      IdsAt(orphans) ==
        Result([j \in 1..Len(orphans) |-> b.manifest[orphans[j]].id])
  IN IdsAt(Ascending(OrphanPositions(b)))

\* [b, ret]: ret is the number of items removed
removeOrphanedMedia(b) ==
  LET Count(r) == [b |-> r.b, ret |-> Len(r.ret)]
  IN Count(findOrphanedMedia(b, TRUE))

\* the href fixBrokenLinks leaves in place of linkHref in the document at
\* docPath
FixedLink(linkHref, docPath, validHrefs) ==
  IF linkHref = <<>> \/ linkHref = <<"#">> \/ StartsWith(linkHref, <<"http">>)
  THEN linkHref
  ELSE IF PathJoin(PathDirname(docPath), SplitHash0(linkHref)) \in validHrefs
  THEN linkHref
  ELSE <<"#">>

\* the file as fixBrokenLinks would write it back
FixedFile(file, docPath, validHrefs) ==
  CASE file.kind = "doc" ->
         [file EXCEPT !.links = [i \in 1..Len(file.links) |->
                                   FixedLink(file.links[i], docPath, validHrefs)]]
    [] file.kind = "nav" ->
         [file EXCEPT !.items =
            [k \in 1..Len(file.items) |->
               [file.items[k] EXCEPT !.items =
                  [i \in 1..Len(file.items[k].items) |->
                     [file.items[k].items[i] EXCEPT !.href =
                        FixedLink(file.items[k].items[i].href, docPath,
                                  validHrefs)]]]]]
    [] OTHER -> file

fixBrokenLinks(b) ==
  LET man == b.manifest
      validHrefs == {ZipPath(man[i].href) : i \in 1..Len(man)}
      docPaths == {ZipPath(man[i].href) :
                     i \in {j \in 1..Len(man) :
                              /\ man[j].mt \in {XHTML, "text/html"}
                              /\ man[j].href # <<>>
                              /\ ZipPath(man[j].href) \in DOMAIN b.zip}}
  IN [b EXCEPT !.zip =
        [q \in DOMAIN b.zip |->
           IF q \in docPaths THEN FixedFile(b.zip[q], q, validHrefs)
           ELSE b.zip[q]]]

----------------------------------------------------------------------------
(* Output Assembler *)

\* stamps the contributor, the date and the modified date
updateMetadata(b) == [b EXCEPT !.metadata.stamped = TRUE]

resetNcxPlayOrder(b) ==
  IF ~b.ncx.present THEN b
  ELSE IF b.ncx.points # <<>> /\ b.ncx.points[1].po # 0
  THEN [b EXCEPT !.ncx.points =
          [i \in 1..Len(b.ncx.points) |->
             [b.ncx.points[i] EXCEPT !.po = i]]]
  ELSE b

\* saveXmlContent of the package descriptor
SaveContent(b) ==
  [b EXCEPT !.zip =
     ZipWrite(b.zip, contentPath, OpfFile(b.manifest, b.spine))]

\* saveXmlContent of the navigation document, at the href of the nav item
SaveNavigation(b) ==
  LET Save(navItem) ==
        IF b.navigation.present /\ navItem # 0
           /\ b.manifest[navItem].href # <<>>
        THEN [b EXCEPT !.zip =
                ZipWrite(b.zip, ZipPath(b.manifest[navItem].href),
                         NavFile(b.navigation))]
        ELSE b
  IN Save(FindFirst(b.manifest, LAMBDA item : Includes(item.props, <<"nav">>)))

\* saveXmlContent of the NCX, at the href of the NCX item, after the reset
\* of playOrder
SaveNcx(b) ==
  LET Write(r, ncxItem) ==
        [r EXCEPT !.zip = ZipWrite(r.zip, ZipPath(r.manifest[ncxItem].href),
                                   NcxFile(r.ncx))]
      Save(ncxItem) ==
        IF b.ncx.present /\ ncxItem # 0 /\ b.manifest[ncxItem].href # <<>>
        THEN Write(resetNcxPlayOrder(b), ncxItem)
        ELSE b
  IN Save(FindFirst(b.manifest, LAMBDA item : item.mt = NCXTYPE))

\* prepareOutput with the package descriptor saved before the orphan removal
prepareOutputSavesFirst(b) ==
  SaveNcx(SaveNavigation(
     fixBrokenLinks(removeOrphanedMedia(SaveContent(updateMetadata(b))).b)))

prepareOutput(b) ==
  SaveNcx(SaveNavigation(SaveContent(
     fixBrokenLinks(removeOrphanedMedia(updateMetadata(b)).b))))

\* [b, ret]: ret is the archive that generateAsync packs
getOutput(b) ==
  LET Packed(r) == [b |-> r, ret |-> r.zip]
  IN Packed(prepareOutput(b))

----------------------------------------------------------------------------
(* The books that load() is given.  The table of contents of a book takes  *)
(* its entries, in order, from TocHrefs: two files, a second entry into    *)
(* the first file, a file whose name ends in the name of another           *)
(* ("21.xhtml" and "1.xhtml"), and an entry without href.  Every file of   *)
(* the table of contents is a content document of manifest and spine.      *)
(* With it come a stylesheet, an image used by document "1.xhtml", an      *)
(* image used by the stylesheet only, an image nobody uses and the cover.  *)

H1 == <<"1", "x">>
H1s == <<"1", "x", "#", "s">>
H2 == <<"2", "x">>
H21 == <<"2", "1", "x">>
TocHrefs == <<H1, H1s, H2, H21, <<>>>>
DocFiles == <<H1, H2, H21>>

NavHref == <<"nav", "x">>
NcxHref == <<"toc", "ncx">>
CssHref == <<"s", "css">>
ImgA == <<"i", "/", "a", "png">>
ImgB == <<"i", "/", "b", "png">>
ImgC == <<"i", "/", "c", "png">>
ImgD == <<"i", "/", "d", "png">>

\* the manifest id of a content document: "c1" for "1.xhtml"
DocId(file) == <<"c">> \o SubSeq(file, 1, Len(file) - 1)

ValidDepths(d) ==
  /\ Len(d) > 0 => d[1] = 0
  /\ \A i \in 1..(Len(d) - 1) : d[i + 1] <= d[i] + 1

\* the entry lists: a choice of at most MaxToc of the hrefs, nested in
\* every possible way
Tocs ==
  UNION {
    LET pick == Ascending(S)
    IN {[j \in 1..Len(pick) |-> [href |-> TocHrefs[pick[j]], depth |-> d[j]]] :
          d \in {e \in [1..Len(pick) -> 0..(MaxToc - 1)] : ValidDepths(e)}} :
    S \in {T \in SUBSET (1..Len(TocHrefs)) : Cardinality(T) <= MaxToc}}

\* nav: navigation document only; navlm: with a landmarks section that
\* points to "1.xhtml"; ncx: NCX only; both: navigation document with
\* landmarks and an NCX of the same entries
Layouts == {"nav", "navlm", "ncx", "both"}

HasNav(layout) == layout \in {"nav", "navlm", "both"}
HasLandmarks(layout) == layout \in {"navlm", "both"}
HasNcx(layout) == layout \in {"ncx", "both"}

DocContent(file) ==
  IF file = H1
  THEN DocFile(<<CssHref, H2, <<"#", "s">>>>, <<ImgA>>)
  ELSE IF file = H2
  THEN TypedDocFile(<<CssHref, H1s>>, <<>>, <<"back", "matter">>)
  ELSE DocFile(<<CssHref, H1s>>, <<>>)

MkBook(toc, layout) ==
  LET nav == IF HasNav(layout)
             THEN [present |-> TRUE,
                   navs |-> <<[type |-> "toc", ol |-> TRUE, items |-> toc]>>
                     \o (IF HasLandmarks(layout)
                         THEN <<[type |-> "landmarks", ol |-> TRUE,
                                 items |-> <<[href |-> H1, depth |-> 0,
                                             etype |-> <<"body", "matter">>]>>]>>
                         ELSE <<>>)]
             ELSE [present |-> FALSE, navs |-> <<>>]
      nx == IF HasNcx(layout)
            THEN [present |-> TRUE,
                  points |-> [i \in 1..Len(toc) |->
                                [src |-> toc[i].href, depth |-> toc[i].depth,
                                 po |-> i]]]
            ELSE [present |-> FALSE, points |-> <<>>]
      Manifest(docs) ==
        (IF HasNav(layout)
         THEN <<Item(<<"nav">>, NavHref, XHTML, <<"nav">>)>> ELSE <<>>)
        \o (IF HasNcx(layout)
            THEN <<Item(<<"ncx">>, NcxHref, NCXTYPE, <<>>)>> ELSE <<>>)
        \o [i \in 1..Len(docs) |-> Item(DocId(docs[i]), docs[i], XHTML, <<>>)]
        \o <<Item(<<"css">>, CssHref, CSS, <<>>),
             Item(<<"ia">>, ImgA, "image/png", <<>>),
             Item(<<"ib">>, ImgB, "image/png", <<>>),
             Item(<<"ic">>, ImgC, "image/png", <<>>),
             Item(<<"cov">>, ImgD, "image/png", <<>>)>>
      Files(man, sp, used) ==
        [q \in {contentPath}
               \cup {ZipPath(href) :
                       href \in used \cup {CssHref, ImgA, ImgB, ImgC, ImgD}} |->
           CASE q = contentPath -> OpfFile(man, sp)
             [] q[Len(q)] = "ncx" -> NcxFile(nx)
             [] q[Len(q)] = "css" -> DocFile(<<>>, <<ImgB>>)
             [] q[Len(q)] = "png" -> BinFile(<<q[Len(q) - 1]>>)
             [] q[Len(q) - 1] = "nav" -> NavFile(nav)
             [] OTHER -> DocContent(SubSeq(q, 3, Len(q)))]
      Package(docs, man, sp) ==
        [zip |-> Files(man, sp,
                       Range(docs)
                       \cup (IF HasNav(layout) THEN {NavHref} ELSE {})
                       \cup (IF HasNcx(layout) THEN {NcxHref} ELSE {})),
         manifest |-> man, spine |-> sp, navigation |-> nav, ncx |-> nx,
         contents |-> <<>>,
         metadata |-> [cover |-> <<<<"cov">>>>, guide |-> <<>>,
                       stamped |-> FALSE]]
      WithDocs(docs) ==
        Package(docs, Manifest(docs), [i \in 1..Len(docs) |-> DocId(docs[i])])
      used == {SplitHash0(toc[i].href) : i \in 1..Len(toc)}
                 \cup (IF HasLandmarks(layout) THEN {H1} ELSE {})
  IN buildContentsList(
       WithDocs(RemovePositions(DocFiles,
                   {i \in 1..Len(DocFiles) : DocFiles[i] \notin used})))

----------------------------------------------------------------------------
(* Books for the media scan: one content document, one stylesheet and the  *)
(* images a, b, c, d in folders of the package; every reference is written *)
(* relative to the file that holds it, as a document does.                 *)

RootDir == <<>>
TextDir == <<"t", "/">>
ImageDir == <<"i", "/">>
DocDirs == {RootDir, TextDir}
MediaDirs == {ImageDir, TextDir}
CoverMarks == {"meta", "property", "guide", "none"}

\* the reference that leads from a file in folder dir to target
RelativeRef(dir, target) ==
  IF StartsWith(target, dir) THEN SubSeq(target, Len(dir) + 1, Len(target))
  ELSE <<"..", "/">> \o target

MkMediaBook(docDir, cssDir, imgDir, mark, linked) ==
  LET doc == docDir \o <<"c", "x">>
      css == cssDir \o <<"s", "css">>
      img == [n \in {"a", "b", "c", "d"} |-> imgDir \o <<n, "png">>]
      nav == [present |-> TRUE,
              navs |-> <<[type |-> "toc", ol |-> TRUE,
                          items |-> <<[href |-> RelativeRef(RootDir, doc),
                                       depth |-> 0]>>]>>]
      Files(man, sp) ==
        [q \in {contentPath}
               \cup {ZipPath(href) :
                       href \in {NavHref, doc, css}
                                \cup {img[n] : n \in {"a", "b", "c", "d"}}} |->
           CASE q = contentPath -> OpfFile(man, sp)
             [] q[Len(q)] = "css" ->
                  DocFile(<<>>,
                          IF "b" \in linked
                          THEN <<RelativeRef(cssDir, img["b"])>> ELSE <<>>)
             [] q[Len(q)] = "png" -> BinFile(<<q[Len(q) - 1]>>)
             [] q[Len(q) - 1] = "nav" -> NavFile(nav)
             [] OTHER ->
                  DocFile(<<RelativeRef(docDir, css)>>,
                          IF "a" \in linked
                          THEN <<RelativeRef(docDir, img["a"])>> ELSE <<>>)]
      Package(man, sp) ==
        [zip |-> Files(man, sp), manifest |-> man, spine |-> sp,
         navigation |-> nav, ncx |-> [present |-> FALSE, points |-> <<>>],
         contents |-> <<>>,
         metadata |-> [cover |-> IF mark = "meta" THEN <<<<"cov">>>> ELSE <<>>,
                       guide |-> IF mark = "guide"
                                 THEN <<[type |-> "cover", href |-> img["d"]]>>
                                 ELSE <<>>,
                       stamped |-> FALSE]]
  IN buildContentsList(
       Package(<<Item(<<"nav">>, NavHref, XHTML, <<"nav">>),
                 Item(<<"c">>, doc, XHTML, <<>>),
                 Item(<<"css">>, css, CSS, <<>>),
                 Item(<<"ia">>, img["a"], "image/png", <<>>),
                 Item(<<"ib">>, img["b"], "image/png", <<>>),
                 Item(<<"ic">>, img["c"], "image/png", <<>>),
                 Item(<<"cov">>, img["d"], "image/png",
                      IF mark = "property" THEN <<"cover-image">> ELSE <<>>)>>,
               <<<<"c">>>>))

----------------------------------------------------------------------------
(* The state machine.  call is the last call, [op, arg, threw, ret], and   *)
(* pre the book before it; nops counts the calls since load.               *)

Loaded(b) ==
  /\ zip = b.zip
  /\ manifest = b.manifest
  /\ spine = b.spine
  /\ navigation = b.navigation
  /\ ncx = b.ncx
  /\ contents = b.contents
  /\ metadata = b.metadata
  /\ call = [op |-> "load", arg |-> <<>>, threw |-> FALSE, ret |-> <<>>]
  /\ pre = b
  /\ nops = 0

Init == \E toc \in Tocs, layout \in Layouts : Loaded(MkBook(toc, layout))

Outcome(op, arg, b, threw, ret) ==
  /\ zip' = b.zip
  /\ manifest' = b.manifest
  /\ spine' = b.spine
  /\ navigation' = b.navigation
  /\ ncx' = b.ncx
  /\ contents' = b.contents
  /\ metadata' = b.metadata
  /\ call' = [op |-> op, arg |-> arg, threw |-> threw, ret |-> ret]
  /\ pre' = Book
  /\ nops' = nops + 1

\* a call that edits the book: at most MaxOps of them after load
Returns(op, arg, b, threw, ret) ==
  nops < MaxOps /\ Outcome(op, arg, b, threw, ret)

\* the return of an operation that may throw, r its [b, threw]
Ends(op, arg, r) == Returns(op, arg, r.b, r.threw, <<>>)

\* the return of an operation with a result, r its [b, ret]
Yields(op, arg, r) == Returns(op, arg, r.b, FALSE, r.ret)

\* arguments of the calls
MaxIndex(b) == IF b.contents = <<>> THEN 0
               ELSE MaxOf({b.contents[i].index : i \in 1..Len(b.contents)})
Indices(b) == 0..(MaxIndex(b) + 1)
ElementIds(b) == {b.contents[i].id : i \in 1..Len(b.contents)}
UnknownId == <<"zz", "x">>
Identifiers(b) ==
  {Num(n) : n \in Indices(b)} \cup {Str(id) : id \in ElementIds(b) \cup {UnknownId}}
\* parseInt reads a sign: "-1..." starts at -1
Starts(b) == Indices(b) \cup {-1}
Ranges(b) ==
  {[ok |-> TRUE, start |-> n, end |-> m, open |-> FALSE] :
      n \in Starts(b), m \in Indices(b)}
  \cup {[ok |-> TRUE, start |-> n, end |-> 0, open |-> TRUE] : n \in Starts(b)}
  \cup {[ok |-> FALSE, start |-> 0, end |-> 0, open |-> FALSE]}
KeepSets(b) ==
  {K \in SUBSET {Num(n) : n \in Indices(b)} : Cardinality(K) <= 2}
  \cup {K \in SUBSET {Str(id) : id \in ElementIds(b) \cup {UnknownId}} :
          Cardinality(K) \in 1..2}
PlainBody == [links |-> <<>>, refs |-> <<>>]
\* the id generateUniqueId returns: a name no manifest item has
RECURSIVE FreshId(_, _, _)
FreshId(b, prefix, n) ==
  IF \E i \in 1..Len(b.manifest) : b.manifest[i].id = <<prefix, ToString(n)>>
  THEN FreshId(b, prefix, n + 1)
  ELSE <<prefix, ToString(n)>>
generateUniqueId(b, prefix) == FreshId(b, prefix, 1)
\* options.id: absent, or an id the caller picks
OptionIds(b) == {generateUniqueId(b, "content"), DocId(H1)}
AssetPaths == {<<"i", "/", "n", "png">>, ImgC, CssHref, H1,
               <<"/", "f", "/", "n", "woff2">>}
AssetData(path) ==
  IF path = CssHref THEN DocFile(<<>>, <<>>)
  ELSE IF path = H1 THEN TypedDocFile(<<>>, <<>>, <<"front", "matter">>)
  ELSE BinFile(<<"new">>)

RemoveContentElement ==
  \E identifier \in Identifiers(Book) :
     Ends("removeContentElement", identifier,
          removeContentElement(Book, identifier))

RemoveContents ==
  \E x \in Identifiers(Book), y \in Identifiers(Book) :
     /\ x.k = y.k
     /\ x.k = "num" => x.v <= 1 /\ y.v <= 1
     /\ Ends("removeContents", <<x, y>>, removeContents(Book, <<x, y>>))

RemoveContentRange ==
  \E range \in Ranges(Book) :
     Ends("removeContentRange", range, removeContentRange(Book, range))

RemoveExcept ==
  \E keep \in KeepSets(Book) :
     Ends("removeExcept", keep, removeExcept(Book, keep))

RemoveExceptWhere ==
  \E kept \in SUBSET (1..Len(TopContents(Book))) :
     Ends("removeExceptWhere", kept, removeExceptWhere(Book, kept))

InsertContent ==
  \E at \in Indices(Book), id \in OptionIds(Book) :
     Ends("insertContent", [at |-> at, id |-> id],
          insertContent(Book, PlainBody, at, id))

AppendContent ==
  \E id \in {generateUniqueId(Book, "content")} :
     Ends("appendContent", [id |-> id], appendContent(Book, PlainBody, id))

PrependContent ==
  \E id \in {generateUniqueId(Book, "content")} :
     Ends("prependContent", [id |-> id], prependContent(Book, PlainBody, id))

InsertAsset ==
  \E path \in AssetPaths :
     Returns("insertAsset", [path |-> path, data |-> AssetData(path)],
             insertAsset(Book, path, AssetData(path),
                         generateUniqueId(Book, "asset")),
             FALSE, <<>>)

FindOrphanedMedia ==
  \E remove \in BOOLEAN :
     Yields("findOrphanedMedia", remove, findOrphanedMedia(Book, remove))

RemoveOrphanedMedia ==
  Yields("removeOrphanedMedia", <<>>, removeOrphanedMedia(Book))

\* the book is written out at any time, the last time after the last edit
GetOutput ==
  /\ nops <= MaxOps
  /\ LET Written(r) == Outcome("getOutput", <<>>, r.b, FALSE, r.ret)
     IN Written(getOutput(Book))

Next ==
  \/ RemoveContentElement
  \/ RemoveContents
  \/ RemoveContentRange
  \/ RemoveExcept
  \/ RemoveExceptWhere
  \/ InsertContent
  \/ AppendContent
  \/ PrependContent
  \/ InsertAsset
  \/ FindOrphanedMedia
  \/ RemoveOrphanedMedia
  \/ GetOutput

Spec == Init /\ [][Next]_vars

\* the media scan on its own, over the books with folders
InitMedia ==
  \E docDir \in DocDirs, cssDir \in DocDirs, imgDir \in MediaDirs,
     mark \in CoverMarks, linked \in SUBSET {"a", "b"} :
       Loaded(MkMediaBook(docDir, cssDir, imgDir, mark, linked))

NextMedia ==
  \/ FindOrphanedMedia
  \/ RemoveOrphanedMedia

SpecMedia == InitMedia /\ [][NextMedia]_vars

\* load followed by output only, over both families of books
InitRoundTrip == Init \/ InitMedia

SpecRoundTrip == InitRoundTrip /\ [][GetOutput]_vars

----------------------------------------------------------------------------
(* Properties *)

Mutations == {"removeContentElement", "removeContents", "removeContentRange",
              "removeExcept", "removeExceptWhere", "insertContent",
              "appendContent", "prependContent"}
Removals == {"removeContentElement", "removeContents", "removeContentRange",
             "removeExcept", "removeExceptWhere"}
Succeeded(ops) == call.op \in ops /\ ~call.threw

\* contents is kept in pre-order, so flattening it reads it left to right
PreOrderIndices(els) == [i \in 1..Len(els) |-> els[i].index]

\* C1: after load and after every successful mutation the pre-order
\* flattening of the tree carries exactly the indices 0, 1, ..., n-1 in that
\* order, for trees built from the navigation document and from the NCX.
C1_IndexContiguity ==
  Succeeded(Mutations \cup {"load"}) =>
     PreOrderIndices(contents) = [i \in 1..Len(contents) |-> i - 1]

\* the elements of the tree of b that the removal call c names
Named(b, idents) ==
  {e \in Range(b.contents) :
     \E x \in idents : \/ x.k = "num" /\ e.index = x.v
                       \/ x.k = "str" /\ e.id = x.v}
Targets(b, c) ==
  CASE c.op = "removeContentElement" -> Named(b, {c.arg})
    [] c.op = "removeContents" -> Named(b, Range(c.arg))
    [] c.op = "removeContentRange" ->
         {e \in Range(b.contents) :
            /\ c.arg.ok
            /\ e.index >= c.arg.start
            /\ c.arg.open \/ e.index <= c.arg.end}
    [] c.op = "removeExcept" ->
         {e \in Range(TopContents(b)) :
            e.id \notin {k.id : k \in Named(b, c.arg)}}
    [] c.op = "removeExceptWhere" ->
         {TopContents(b)[p] : p \in (1..Len(TopContents(b))) \ c.arg}
    [] OTHER -> {}
FileOf(x) == SplitHash0(x.href)

\* C2: after a removal that returns without error, for every removed
\* element the manifest has no entry for its file, the spine has no itemref
\* to the id that entry had, and the archive does not hold the file.
C2_RemovalCompleteness ==
  Succeeded(Removals) =>
     \A x \in Targets(pre, call) :
        LET ids == {pre.manifest[i].id :
                      i \in {j \in 1..Len(pre.manifest) :
                               pre.manifest[j].href = FileOf(x)}}
        IN /\ \A i \in 1..Len(manifest) : manifest[i].href # FileOf(x)
           /\ \A i \in 1..Len(spine) : spine[i] \notin ids
           /\ ZipPath(FileOf(x)) \notin DOMAIN zip

\* C3: after a removal that returns without error, for every removed
\* element the tree has no element with its id, no anchor of any nav section
\* references its file and no navPoint has a src that references its file.
C3_NoReferenceLeft ==
  Succeeded(Removals) =>
     \A x \in Targets(pre, call) :
        /\ \A i \in 1..Len(contents) : contents[i].id # x.id
        /\ \A k \in 1..Len(navigation.navs) :
              \A i \in 1..Len(navigation.navs[k].items) :
                 SplitHash0(navigation.navs[k].items[i].href) # FileOf(x)
        /\ \A i \in 1..Len(ncx.points) :
              SplitHash0(ncx.points[i].src) # FileOf(x)

\* C4: removeContentRange removes exactly the elements whose index before
\* the call lies in the range ("n..m": n <= i <= m; "n...": n <= i), and
\* every element outside the range is still in the tree afterwards.
C4_RangeSemantics ==
  (Succeeded({"removeContentRange"}) /\ call.arg.ok) =>
     \A e \in Range(pre.contents) :
        (e \in Targets(pre, call)) <=>
           ~(\E i \in 1..Len(contents) : contents[i].href = e.href)

\* C5: after insertContent(x, k) succeeds with k from 0 to the number of
\* elements, the new element has index k, every element whose index was
\* >= k has its index increased by one and every other keeps its index.
C5_InsertPosition ==
  (Succeeded({"insertContent"}) /\ call.arg.at <= Len(pre.contents)) =>
     /\ \E i \in 1..Len(contents) :
           /\ contents[i].href = FileNameOf(call.arg.id)
           /\ contents[i].index = call.arg.at
     /\ \A e \in Range(pre.contents) :
           \E i \in 1..Len(contents) :
              /\ contents[i].href = e.href
              /\ contents[i].index =
                    IF e.index >= call.arg.at THEN e.index + 1 ELSE e.index

\* the places of the spine of b that hold an itemref to the file of e
SpinePlaces(b, e) ==
  {p \in 1..Len(b.spine) :
     \E i \in 1..Len(b.manifest) :
        b.manifest[i].id = b.spine[p] /\ b.manifest[i].href = FileOf(e)}

\* C6: insertContent(x, k) puts the new itemref immediately before the
\* itemref of the element that had index k, and at the end of the spine
\* when no element had index k.
C6_SpineMatchesNavigation ==
  Succeeded({"insertContent"}) =>
     LET atK == {e \in Range(pre.contents) : e.index = call.arg.at}
     IN IF atK = {}
        THEN spine = Append(pre.spine, call.arg.id)
        ELSE \E e \in atK : \E p \in SpinePlaces(pre, e) :
                spine = InsertAt(pre.spine, p, call.arg.id)

\* the top-level element above position p of a tree in pre-order
TopOf(s, p) == MaxOf({q \in 1..p : s[q].depth = 0})
\* the subtrees of the top-level elements with an id in ids, re-indexed
Surviving(s, ids) ==
  LET keptPositions == Ascending({p \in 1..Len(s) : s[TopOf(s, p)].id \in ids})
  IN [j \in 1..Len(keptPositions) |->
        [s[keptPositions[j]] EXCEPT !.index = j - 1]]

\* C7: removeExcept(keep), numeric entries resolved through the flat index,
\* leaves exactly the top-level elements whose id is kept, in their order,
\* with their children, indexed contiguously from 0.
C7_RemoveExcept ==
  Succeeded({"removeExcept"}) =>
     contents = Surviving(pre.contents, {k.id : k \in Named(pre, call.arg)})

\* the file a reference written in folder dir leads to
RECURSIVE ResolveRef(_, _)
ResolveRef(dir, ref) ==
  IF StartsWith(ref, <<"..", "/">>)
  THEN ResolveRef(PathDirname(dir), SubSeq(ref, 3, Len(ref)))
  ELSE PathJoin(dir, SplitHash0(ref))

\* some content document, stylesheet or NCX of the manifest of b that is
\* in the archive holds a reference that leads to the file of item
IsReferenced(b, item) ==
  \E c \in 1..Len(b.manifest) :
     /\ b.manifest[c].mt \in {XHTML, NCXTYPE, CSS}
     /\ ZipPath(b.manifest[c].href) \in DOMAIN b.zip
     /\ \E v \in RawValues(b.zip[ZipPath(b.manifest[c].href)]) :
           ResolveRef(PathDirname(b.manifest[c].href), v) = item.href

\* C8: findOrphanedMedia(false) returns exactly the ids of the image,
\* audio and video entries that are not the cover and that no content
\* document, stylesheet or NCX of the manifest references.
C8_OrphanDetection ==
  (call.op = "findOrphanedMedia" /\ call.arg = FALSE) =>
     Range(call.ret) =
        {pre.manifest[i].id :
           i \in {j \in 1..Len(pre.manifest) :
                    /\ IsMediaType(pre.manifest[j].mt)
                    /\ getCoverItem(pre) # j
                    /\ ~IsReferenced(pre, pre.manifest[j])}}

\* the entries of the package descriptor, the navigation document and the
\* NCX as the archive z holds them
ManifestOf(z) == Range(z[contentPath].items)
SpineOf(z) == z[contentPath].refs
NavEntriesOf(z, b) ==
  IF b.navigation.present THEN z[ZipPath(NavHref)].items ELSE <<>>
NcxEntriesOf(z, b) ==
  IF b.ncx.present
  THEN [i \in 1..Len(z[ZipPath(NcxHref)].items) |->
          [src |-> z[ZipPath(NcxHref)].items[i].src,
           depth |-> z[ZipPath(NcxHref)].items[i].depth]]
  ELSE <<>>

\* C9 as stated: load, no mutation, getOutput leaves the set of manifest
\* entries, the sequence of spine itemrefs and the navigation and NCX
\* entries of the output equal to those of the loaded book.
C9_RoundTrip ==
  (call.op = "getOutput" /\ nops = 1) =>
     /\ ManifestOf(call.ret) = ManifestOf(pre.zip)
     /\ SpineOf(call.ret) = SpineOf(pre.zip)
     /\ NavEntriesOf(call.ret, pre) = NavEntriesOf(pre.zip, pre)
     /\ NcxEntriesOf(call.ret, pre) = NcxEntriesOf(pre.zip, pre)

\* the media entries the orphan removal of getOutput takes out of b
OrphansOf(b) == Range(findOrphanedMedia(b, FALSE).ret)

\* C9 amended: load, no mutation, getOutput leaves the spine itemrefs and
\* the navigation and NCX entries as loaded, and the manifest entries as
\* loaded less the media entries that findOrphanedMedia reports on the
\* loaded book; those entries and their files are gone from the output.
C9_RoundTripLessOrphans ==
  (call.op = "getOutput" /\ nops = 1) =>
     /\ ManifestOf(call.ret) =
           {item \in ManifestOf(pre.zip) : item.id \notin OrphansOf(pre)}
     /\ \A item \in ManifestOf(pre.zip) :
           item.id \in OrphansOf(pre) => ZipPath(item.href) \notin DOMAIN call.ret
     /\ SpineOf(call.ret) = SpineOf(pre.zip)
     /\ NavEntriesOf(call.ret, pre) = NavEntriesOf(pre.zip, pre)
     /\ NcxEntriesOf(call.ret, pre) = NcxEntriesOf(pre.zip, pre)

\* a loaded book with orphaned media has been written out
C9_Witness ==
  /\ call.op = "getOutput" /\ nops = 1
  /\ OrphansOf(pre) # {}
  /\ ManifestOf(call.ret) # ManifestOf(pre.zip)
  /\ pre.ncx.present /\ pre.navigation.present

\* C10: after insertAsset(path, data) a following getOutput produces an
\* archive that holds the file at the package-relative path with the same
\* bytes and a manifest entry with that href and the inferred media type.
C10_AssetInOutput ==
  call.op = "insertAsset" =>
     LET path == StripLeadingSlashes(call.arg.path)
         out == getOutput(Book).ret
     IN /\ ZipPath(path) \in DOMAIN out
        /\ out[ZipPath(path)] = call.arg.data
        /\ \E item \in ManifestOf(out) :
              item.href = path /\ item.mt = getMediaType(path)

\* position in the tree of b, in document order, of the element that
\* identifier ident denotes: the one findContentElementByIndex finds for a
\* flat index, the first with that id for an id; 0 when there is none
DenotedAt(b, ident) ==
  IF ident.k = "num" THEN findContentElementByIndex(b, ident.v)
  ELSE FindFirst(b.contents, LAMBDA el : el.id = ident.v)

\* the identifiers that a removal call was given
IdentifiersOf(c) ==
  IF c.op = "removeContentElement" THEN {c.arg} ELSE Range(c.arg)

\* C11: when every identifier given to removeContentElement or
\* removeContents denotes an element of the tree that has a file, top-level
\* or nested, by flat index or by id, the call does not throw and each
\* denoted element is gone from the tree afterwards.
C11_IdentifierResolution ==
  (/\ call.op \in {"removeContentElement", "removeContents"}
   /\ \A ident \in IdentifiersOf(call) :
         /\ DenotedAt(pre, ident) # 0
         /\ pre.contents[DenotedAt(pre, ident)].href # <<>>) =>
     /\ ~call.threw
     /\ \A ident \in IdentifiersOf(call) :
           \A i \in 1..Len(contents) :
              contents[i].href # pre.contents[DenotedAt(pre, ident)].href

\* the positions of the subtree of the top-level element with children
\* that removeContentElement was asked to remove by id, {} for other calls
RemovedSubtree ==
  IF call.op = "removeContentElement" /\ call.arg.k = "str"
  THEN LET p == DenotedAt(pre, call.arg)
       IN IF p # 0 /\ pre.contents[p].depth = 0
             /\ pre.contents[p].href # <<>>
             /\ SubtreeEnd(pre.contents, p) > p
          THEN p..SubtreeEnd(pre.contents, p)
          ELSE {}
  ELSE {}

\* C12: after removeContentElement has removed a top-level element that
\* has children, neither the element nor any descendant is in the tree, and
\* the manifest and the spine have no entry for the file of the element or
\* of a descendant.
C12_SubtreeRemoval ==
  ~call.threw =>
     \A q \in RemovedSubtree :
        LET x == pre.contents[q]
            ids == {pre.manifest[i].id :
                      i \in {j \in 1..Len(pre.manifest) :
                               pre.manifest[j].href = FileOf(x)}}
        IN /\ \A i \in 1..Len(contents) : contents[i].id # x.id
           /\ x.href # <<>> =>
                 /\ \A i \in 1..Len(manifest) : manifest[i].href # FileOf(x)
                 /\ \A i \in 1..Len(spine) : spine[i] \notin ids

\* C13: after appendContent succeeds the new element is the last top-level
\* entry of the tree, no element has a higher index, and its itemref is
\* the last of the spine.
C13_AppendIsLast ==
  Succeeded({"appendContent"}) =>
     /\ contents # <<>>
     /\ contents[Len(contents)].href = FileNameOf(call.arg.id)
     /\ contents[Len(contents)].depth = 0
     /\ \A i \in 1..Len(contents) :
           contents[i].index <= contents[Len(contents)].index
     /\ spine # <<>>
     /\ spine[Len(spine)] = call.arg.id

\* a media book whose image c is an SVG page of the spine that no table of
\* contents and no document links
WithSvgPage(b) ==
  LET Page(m) ==
        [b EXCEPT !.manifest[m].mt = "image/svg+xml",
                  !.spine = Append(@, b.manifest[m].id)]
  IN SaveContent(Page(FindFirst(b.manifest, LAMBDA item : item.id = <<"ic">>)))

InitSvgPage ==
  \E docDir \in DocDirs, cssDir \in DocDirs, imgDir \in MediaDirs,
     mark \in CoverMarks, linked \in SUBSET {"a", "b"} :
       Loaded(WithSvgPage(MkMediaBook(docDir, cssDir, imgDir, mark, linked)))

\* every operation, on the books with an SVG page
SpecSvgPage == InitSvgPage /\ [][Next]_vars

\* every itemref of the spine of b names the id of a manifest item of b
SpineInManifest(b) ==
  \A i \in 1..Len(b.spine) :
     \E j \in 1..Len(b.manifest) : b.manifest[j].id = b.spine[i]

\* C14: in every state reached from a loaded book whose spine references
\* only manifest ids, by removals, insertions, insertAsset,
\* findOrphanedMedia, removeOrphanedMedia and getOutput, every spine itemref
\* references an id that is present in the manifest.
C14_SpineReferencesManifest == SpineInManifest(Book)

\* C15: after load and after insertContent, with a generated id or with an
\* id the caller supplies, and after insertAsset, no two manifest entries
\* share an id.
C15_UniqueManifestIds ==
  call.op \in {"load", "insertContent", "appendContent", "prependContent",
               "insertAsset"} =>
     \A i \in 1..Len(manifest) : \A j \in 1..Len(manifest) :
        i # j => manifest[i].id # manifest[j].id

----------------------------------------------------------------------------
(* removeContentRange step by step: the async method runs up to an await,
   gives the thread back, and is resumed later.  While it is suspended
   call.ret is its position [at, left, seen]: at "loop" it waits at the
   await of line 585 with the identifiers in left still to remove, at
   "build" inside buildContentsList after this.contents = [].  seen holds
   what a caller read from the instance while the method was suspended. *)

Suspended == DOMAIN call.ret # {}

AwaitAt(at, left, seen) == [at |-> at, left |-> left, seen |-> seen]

\* the method gives the thread back at position at, the book being r.b, or
\* ends by the exception of r
Suspend(range, r, at, left) ==
  IF r.threw THEN Outcome("removeContentRange", range, r.b, TRUE, <<>>)
  ELSE Outcome("removeContentRange", range, r.b, FALSE,
               AwaitAt(at, left, <<>>))

\* the method is resumed: the book becomes r.b, the call stays the same
Resume(r, ret) ==
  /\ zip' = r.b.zip
  /\ manifest' = r.b.manifest
  /\ spine' = r.b.spine
  /\ navigation' = r.b.navigation
  /\ ncx' = r.b.ncx
  /\ contents' = r.b.contents
  /\ metadata' = r.b.metadata
  /\ call' = [call EXCEPT !.threw = r.threw,
                          !.ret = IF r.threw THEN <<>> ELSE ret]
  /\ UNCHANGED <<pre, nops>>

\* the call, up to the first await: the range check and the first removal
CallRemoveContentRange ==
  /\ ~Suspended
  /\ nops < MaxOps
  /\ \E range \in Ranges(Book) :
        LET Run(allElements) ==
              IF \/ ~range.ok
                 \/ FindFirst(allElements,
                              LAMBDA el : el.index >= range.start) = 0
              THEN Suspend(range, Threw(Book), "loop", <<>>)
              ELSE LET First(ids) ==
                         IF ids = <<>>
                         THEN Suspend(range,
                                      Done([Book EXCEPT !.contents = <<>>]),
                                      "build", <<>>)
                         ELSE Suspend(range,
                                      _removeContentElement(Book, Head(ids)),
                                      "loop", Tail(ids))
                   IN First(Reverse(IdsOf(ElementsInRange(allElements,
                                                          range))))
        IN Run(SortByIndex(getAllElements(Book)))

\* the next turn of the loop
ResumeLoop ==
  /\ Suspended
  /\ call.ret.at = "loop"
  /\ call.ret.left # <<>>
  /\ Resume(_removeContentElement(Book, Head(call.ret.left)),
            [call.ret EXCEPT !.left = Tail(@)])

\* the loop is over: buildContentsList empties the tree and reads the files
StartBuild ==
  /\ Suspended
  /\ call.ret.at = "loop"
  /\ call.ret.left = <<>>
  /\ Resume(Done([Book EXCEPT !.contents = <<>>]),
            [call.ret EXCEPT !.at = "build"])

\* the tree is built and the method returns
EndBuild ==
  /\ Suspended
  /\ call.ret.at = "build"
  /\ contents' = buildContentsList(Book).contents
  /\ call' = [call EXCEPT !.ret = <<>>]
  /\ UNCHANGED <<zip, manifest, spine, navigation, ncx, metadata, pre, nops>>

\* a caller that did not wait for the method reads the instance
ListContentsAtAwait ==
  /\ Suspended
  /\ call.ret.seen = <<>>
  /\ call' = [call EXCEPT !.ret.seen = <<Book>>]
  /\ UNCHANGED <<zip, manifest, spine, navigation, ncx, contents, metadata,
                 pre, nops>>

NextAwait ==
  \/ CallRemoveContentRange
  \/ ResumeLoop
  \/ StartBuild
  \/ EndBuild
  \/ ListContentsAtAwait

SpecAwait == Init /\ [][NextAwait]_vars

\* C16: what another caller reads from the instance at an await point of a
\* removeContentRange that has started and not completed is the book as it
\* was before the call or the book as the completed call leaves it, never a
\* book in which only part of manifest, spine, navigation, NCX, archive and
\* tree reflect the removal.
C16_NoMutationInProgressVisible ==
  (Suspended /\ call.ret.seen # <<>>) =>
     \/ call.ret.seen[1] = pre
     \/ call.ret.seen[1] = removeContentRange(pre, call.arg).b

\* the tree of b is the one buildContentsList builds from its documents
Fresh(b) == b.contents = buildContentsList(b).contents

\* C17: after load, and after every public operation that returns without
\* error on a book whose tree was up to date, the tree that listContents()
\* returns is the tree that buildContentsList builds afresh from the current
\* navigation document or NCX, landmarks and archive files.
C17_TreeIsFresh ==
  (~call.threw /\ (call.op = "load" \/ Fresh(pre))) => Fresh(Book)

\* the removals that resolve identifiers, indices or ranges
ResolvingRemovals == {"removeContentElement", "removeContents",
                      "removeContentRange", "removeExcept"}

\* C18: when removeContentElement, removeContents, removeContentRange or
\* removeExcept throws because an identifier, index or range resolves to no
\* element, manifest, spine, navigation document, NCX, archive and tree are
\* exactly as they were before the call.
C18_FailedRemovalChangesNothing ==
  (call.op \in ResolvingRemovals /\ call.threw) => Book = pre

\* C19: removeContentRange throws, and changes nothing, whenever the start
\* index of the range is not the index of an element of the current tree.
C19_UnknownStartThrows ==
  (/\ call.op = "removeContentRange"
   /\ call.arg.ok
   /\ \A i \in 1..Len(pre.contents) : pre.contents[i].index # call.arg.start)
     => (call.threw /\ Book = pre)

\* C20: removeExcept(keep) throws, without removing anything, whenever an
\* entry of keep, a numeric index or a string id, identifies no element of
\* the current tree.
C20_UnknownKeepThrows ==
  (/\ call.op = "removeExcept"
   /\ pre.contents # <<>>
   /\ \E entry \in call.arg : DenotedAt(pre, entry) = 0)
     => (call.threw /\ Book = pre)

----------------------------------------------------------------------------
(* The orphan scan called twice in a row: the second call follows a call
   that removed, and carries that call as its argument. *)

Removed ==
  \/ call.op = "removeOrphanedMedia"
  \/ call.op = "findOrphanedMedia" /\ call.arg

FindOrphanedMediaAgain ==
  /\ Removed
  /\ \E remove \in BOOLEAN :
        LET Second(r) ==
              Outcome("second findOrphanedMedia",
                      [first |-> call, remove |-> remove], r.b, FALSE, r.ret)
        IN Second(findOrphanedMedia(Book, remove))

RemoveOrphanedMediaAgain ==
  /\ Removed
  /\ LET Second(r) ==
           Outcome("second removeOrphanedMedia", [first |-> call], r.b,
                   FALSE, r.ret)
     IN Second(removeOrphanedMedia(Book))

NextScanTwice ==
  \/ FindOrphanedMedia
  \/ RemoveOrphanedMedia
  \/ FindOrphanedMediaAgain
  \/ RemoveOrphanedMediaAgain

InitScanTwice == Init \/ InitMedia \/ InitSvgPage

SpecScanTwice == InitScanTwice /\ [][NextScanTwice]_vars

\* C21: immediately after removeOrphanedMedia or findOrphanedMedia(true) has
\* returned, a second removeOrphanedMedia returns 0 and a second
\* findOrphanedMedia returns the empty list, and the second call changes
\* neither the manifest nor the archive.
C21_OrphanRemovalIdempotent ==
  /\ call.op = "second removeOrphanedMedia" => call.ret = 0
  /\ call.op = "second findOrphanedMedia" => call.ret = <<>>
  /\ call.op \in {"second removeOrphanedMedia", "second findOrphanedMedia"}
        => (manifest = pre.manifest /\ zip = pre.zip)

\* a second removal after a first one that took two or more media items out
C21_Witness ==
  /\ call.op = "second removeOrphanedMedia"
  /\ call.arg.first.op = "removeOrphanedMedia"
  /\ call.arg.first.ret >= 2
  /\ Len(pre.manifest) > 0

----------------------------------------------------------------------------
(* Links of the documents in the written archive *)

\* the path without its first ".." and the folder that ".." leaves
RECURSIVE Normalized(_)
Normalized(p) ==
  LET Cut(i) ==
        IF i = 0 THEN p
        ELSE IF i < 3 THEN SubSeq(p, i + 2, Len(p))
        ELSE Normalized(SubSeq(p, 1, LastPos(p, "/", i - 2))
                        \o SubSeq(p, i + 2, Len(p)))
  IN Cut(FirstPos(p, "..", 1))

\* the archive path a link in the document at docPath leads to: the
\* document itself for a link that is only a fragment
TargetOf(docPath, linkHref) ==
  IF SplitHash0(linkHref) = <<>> THEN docPath
  ELSE Normalized(PathJoin(PathDirname(docPath), SplitHash0(linkHref)))

\* the hyperlinks of a file of the archive
LinksOf(file) ==
  CASE file.kind = "doc" -> Range(file.links)
    [] file.kind = "nav" ->
         UNION {{file.items[k].items[i].href :
                   i \in 1..Len(file.items[k].items)} :
                k \in 1..Len(file.items)}
    [] OTHER -> {}

\* the archive paths of the content documents of the manifest man
DocumentPaths(man, z) ==
  {ZipPath(man[i].href) :
     i \in {j \in 1..Len(man) : /\ man[j].mt \in {XHTML, "text/html"}
                                /\ man[j].href # <<>>
                                /\ ZipPath(man[j].href) \in DOMAIN z}}

ManifestPaths(man) == {ZipPath(man[i].href) : i \in 1..Len(man)}

IsLocal(linkHref) ==
  linkHref # <<>> /\ linkHref # <<"#">> /\ ~StartsWith(linkHref, <<"http">>)

\* C22: in the archive that getOutput writes, every local hyperlink of a
\* content document of the manifest whose target, stripped of its fragment
\* and resolved from the folder of the document, is not the path of a
\* manifest entry has become '#'.
C22_BrokenLinksRewritten ==
  call.op = "getOutput" =>
     \A q \in DocumentPaths(manifest, call.ret) :
        \A l \in LinksOf(call.ret[q]) :
           IsLocal(l) => TargetOf(q, l) \in ManifestPaths(manifest)

----------------------------------------------------------------------------
(* getCover, over books that mark the cover in every combination of the
   three ways *)

NoCover == [href |-> <<>>, mediaType |-> "", data |-> <<>>]

\* the CoverImage of the item getCoverItem finds, NoCover for null
getCover(b) ==
  LET Image(m) ==
        IF m = 0 THEN NoCover
        ELSE IF b.manifest[m].href = <<>> \/ b.manifest[m].mt = ""
        THEN NoCover
        ELSE IF ZipPath(b.manifest[m].href) \notin DOMAIN b.zip THEN NoCover
        ELSE [href |-> b.manifest[m].href, mediaType |-> b.manifest[m].mt,
              data |-> b.zip[ZipPath(b.manifest[m].href)].bytes]
  IN Image(getCoverItem(b))

\* the content of the meta name="cover": none, the id of an image, or an
\* id no item has
CoverMetas == {<<>>, <<<<"cov">>>>, <<UnknownId>>}
\* the properties attribute of the item "ib"
CoverProperties == {<<>>, <<"cover-image">>, <<"cover-image", " ", "svg">>}
\* the guide: none, a cover reference to the file of "ic", a toc reference
CoverGuides == {"none", "cover", "toc"}

WithCover(b, meta, props, guide) ==
  LET Marked(ib, ic) ==
        [b EXCEPT !.metadata.cover = meta,
                  !.manifest[ib].props = props,
                  !.metadata.guide =
                     IF guide = "none" THEN <<>>
                     ELSE <<[type |-> guide, href |-> b.manifest[ic].href]>>]
  IN SaveContent(Marked(
        FindFirst(b.manifest, LAMBDA item : item.id = <<"ib">>),
        FindFirst(b.manifest, LAMBDA item : item.id = <<"ic">>)))

InitCover ==
  \E docDir \in DocDirs, imgDir \in MediaDirs, meta \in CoverMetas,
     props \in CoverProperties, guide \in CoverGuides :
       Loaded(WithCover(MkMediaBook(docDir, RootDir, imgDir, "none",
                                    {"a", "b"}),
                        meta, props, guide))

GetCover ==
  /\ nops <= MaxOps
  /\ call.op # "getCover"
  /\ Outcome("getCover", <<>>, Book, FALSE, getCover(Book))

NextCover ==
  \/ GetCover
  \/ RemoveOrphanedMedia

SpecCover == InitCover /\ [][NextCover]_vars

\* the CoverImage of the manifest item at position m of b
CoverAt(b, m) ==
  [href |-> b.manifest[m].href, mediaType |-> b.manifest[m].mt,
   data |-> b.zip[ZipPath(b.manifest[m].href)].bytes]

\* the cover by the three rules, in their order
CoverByRules(b) ==
  LET ByGuide(g) ==
        IF g = 0 THEN 0
        ELSE FindFirst(b.manifest,
                       LAMBDA item : item.href = b.metadata.guide[g].href)
      Third == ByGuide(FindFirst(b.metadata.guide,
                                 LAMBDA ref : ref.type = "cover"))
      Second == FindFirst(b.manifest,
                          LAMBDA item : Includes(item.props, <<"cover-image">>))
      First == IF b.metadata.cover = <<>> THEN 0
               ELSE FindFirst(b.manifest,
                              LAMBDA item : item.id = Head(b.metadata.cover))
      Pick(m) == IF m = 0 THEN NoCover ELSE CoverAt(b, m)
  IN Pick(IF First # 0 THEN First ELSE IF Second # 0 THEN Second ELSE Third)

\* C23: getCover returns the item named by the meta name="cover", otherwise
\* an item whose properties contain cover-image, otherwise the item whose
\* href is that of a guide reference of type cover, and null when none of
\* the three matches.
C23_CoverResolutionOrder ==
  call.op = "getCover" => call.ret = CoverByRules(pre)

----------------------------------------------------------------------------
(* Books whose spine holds documents that no navPoint names: a front page,
   a second part of the first chapter, a closing page *)

PartFront == <<"f", "x">>
PartMid == <<"1", "b", "x">>
PartBack == <<"z", "x">>

WithParts(b, parts) ==
  LET Doc(file) == Item(<<"p">> \o file, file, XHTML, <<>>)
      Files(fs) ==
        [q \in DOMAIN b.zip \cup {ZipPath(f) : f \in fs} |->
           IF q \in DOMAIN b.zip THEN b.zip[q] ELSE DocFile(<<>>, <<>>)]
      front == IF PartFront \in parts THEN <<PartFront>> ELSE <<>>
      mid == IF PartMid \in parts THEN <<PartMid>> ELSE <<>>
      back == IF PartBack \in parts THEN <<PartBack>> ELSE <<>>
      IdsOfParts(fs) == [j \in 1..Len(fs) |-> <<"p">> \o fs[j]]
      Spine(sp) ==
        IdsOfParts(front)
        \o (IF sp = <<>> THEN IdsOfParts(mid)
            ELSE <<Head(sp)>> \o IdsOfParts(mid) \o Tail(sp))
        \o IdsOfParts(back)
  IN SaveContent(
       [b EXCEPT !.zip = Files(parts),
                 !.manifest = @ \o [j \in 1..Len(front \o mid \o back) |->
                                      Doc((front \o mid \o back)[j])],
                 !.spine = Spine(@)])

InitSplit ==
  \E toc \in Tocs, layout \in {"ncx", "both"},
     parts \in SUBSET {PartFront, PartMid, PartBack} :
       Loaded(WithParts(MkBook(toc, layout), parts))

SpecSplit == InitSplit /\ [][RemoveContentElement]_vars

\* the chapter unit of the element x of b: the idrefs of the spine from the
\* file of the navPoint of x up to the file of the next navPoint; defined
\* is FALSE where the file of x or of the next navPoint has no place in the
\* spine behind it
ChapterUnit(b, x) ==
  LET PlaceOf(file) ==
        LET At(m) == IF m = 0 THEN 0
                     ELSE FindFirst(b.spine,
                                    LAMBDA idref : idref = b.manifest[m].id)
        IN At(FindFirst(b.manifest, LAMBDA item : item.href = file))
      Run(start, end) ==
        [defined |-> start # 0 /\ end > start,
         ids |-> {b.spine[k] : k \in {j \in start..(end - 1) : j >= 1}}]
      From(p, start) ==
        IF p = 0 THEN Run(0, 0)
        ELSE IF p = Len(b.ncx.points) THEN Run(start, Len(b.spine) + 1)
        ELSE IF b.ncx.points[p + 1].src = <<>> THEN Run(0, 0)
        ELSE Run(start, PlaceOf(SplitHash0(b.ncx.points[p + 1].src)))
  IN From(FindFirst(b.ncx.points, LAMBDA point : point.src = x.href),
          PlaceOf(SplitHash0(x.href)))

\* C24: with an NCX, removeContentElement of an element removes the spine
\* items and manifest entries of its chapter unit, the run of the spine from
\* the file of its navPoint up to, and without, the file of the next
\* navPoint (to the end of the spine for the last navPoint), and no spine
\* item or manifest entry outside that run.
C24_ChapterUnitRemoved ==
  (/\ call.op = "removeContentElement" /\ ~call.threw
   /\ pre.ncx.present
   /\ ChapterUnit(pre, ContentFor(pre, call.arg)).defined) =>
     LET Gone(unit) ==
           /\ spine = RemovePositions(pre.spine,
                         {k \in 1..Len(pre.spine) : pre.spine[k] \in unit})
           /\ manifest = RemovePositions(pre.manifest,
                            {m \in 1..Len(pre.manifest) :
                               pre.manifest[m].id \in unit})
     IN Gone(ChapterUnit(pre, ContentFor(pre, call.arg)).ids)

\* the entries without href or src that the tree of b is built from
EntriesWithoutTarget(b) ==
  IF b.navigation.present
  THEN IF FirstOl(b.navigation) = 0 THEN {}
       ELSE {e \in Range(b.navigation.navs[FirstOl(b.navigation)].items) :
               e.href = <<>>}
  ELSE {e \in Range(b.ncx.points) : e.src = <<>>}

\* C25: a list item whose anchor has no href and a navPoint whose content
\* has no src are left out of the tree without an error: the tree built
\* from such a document has no element with an empty id or href, and its
\* elements carry the indices 0, 1, ..., n-1.
C25_EntriesWithoutTargetLeftOut ==
  (call.op = "load" /\ EntriesWithoutTarget(Book) # {}) =>
     /\ ~call.threw
     /\ \A i \in 1..Len(contents) :
           contents[i].id # <<>> /\ contents[i].href # <<>>
     /\ {contents[i].index : i \in 1..Len(contents)} = 0..(Len(contents) - 1)

\* C26: getOutput leaves every link of a content document whose target has
\* a manifest entry as it was: a link to a file of the manifest, also one
\* that reaches it through '..', and a link that is only a fragment of the
\* document itself keep their href.
C26_AvailableLinksKept ==
  call.op = "getOutput" =>
     \A q \in DocumentPaths(manifest, call.ret) :
        (q \in DOMAIN pre.zip /\ pre.zip[q].kind = "doc"
           /\ call.ret[q].kind = "doc"
           /\ Len(call.ret[q].links) = Len(pre.zip[q].links)) =>
           \A i \in 1..Len(pre.zip[q].links) :
              (/\ IsLocal(pre.zip[q].links[i])
               /\ TargetOf(q, pre.zip[q].links[i]) \in ManifestPaths(manifest))
                 => call.ret[q].links[i] = pre.zip[q].links[i]

----------------------------------------------------------------------------
(* load on an instance that holds a book already.  data is the archive as  *)
(* a fresh instance parses it; a is the instance before the call.           *)

\* initialize assigns this.navigation and this.ncx only when the new
\* manifest names the document and the archive has it; otherwise the field
\* keeps the document of the book loaded before.
initialize(a, data) ==
  buildContentsList(
    [data EXCEPT
       !.navigation = IF data.navigation.present THEN data.navigation
                      ELSE a.navigation,
       !.ncx = IF data.ncx.present THEN data.ncx ELSE a.ncx])

load(a, data) == Done(initialize(a, data))

Load ==
  \E toc \in Tocs, layout \in Layouts :
     Ends("load", [toc |-> toc, layout |-> layout],
          load(Book, MkBook(toc, layout)))

SpecReload == Init /\ [][Load]_vars

\* C27: after a second load has succeeded, the tree, the navigation
\* document and the NCX of the instance are those of the book just loaded,
\* as a fresh instance would have them; nothing of the book loaded before
\* is left.
C27_SecondLoadReplacesAll ==
  (call.op = "load" /\ nops > 0 /\ ~call.threw) =>
     LET Same(fresh) ==
           /\ navigation = fresh.navigation
           /\ ncx = fresh.ncx
           /\ contents = fresh.contents
     IN Same(MkBook(call.arg.toc, call.arg.layout))

\* the files that the removal of the top-level element x of b may touch:
\* the files of x and of its descendants, and the files of their chapter
\* units
FilesOfRemoval(b, x) ==
  LET Sub(p) ==
        IF p = 0 THEN {} ELSE {b.contents[q] : q \in p..SubtreeEnd(b.contents, p)}
      UnitFiles(e) ==
        LET Of(unit) ==
              IF b.ncx.present /\ unit.defined
              THEN {item.href : item \in {m \in Range(b.manifest) :
                                            m.id \in unit.ids}}
              ELSE {}
        IN Of(ChapterUnit(b, e))
      Files(els) ==
        {SplitHash0(e.href) : e \in els} \cup UNION {UnitFiles(e) : e \in els}
  IN Files(Sub(FindFirst(b.contents, LAMBDA el : el = x)))

\* what belongs to the files outside gone is in the book as it was in b
OtherFilesKept(b, gone) ==
  /\ \A item \in Range(b.manifest) :
        item.href \notin gone => item \in Range(manifest)
  /\ \A idref \in Range(b.spine) :
        (\E item \in Range(b.manifest) :
            item.id = idref /\ item.href \notin gone)
          => idref \in Range(spine)
  /\ \A item \in Range(b.manifest) :
        (/\ item.href \notin gone
         /\ item.mt # NCXTYPE
         /\ ~Includes(item.props, <<"nav">>)
         /\ ZipPath(item.href) \in DOMAIN b.zip) =>
           /\ ZipPath(item.href) \in DOMAIN zip
           /\ zip[ZipPath(item.href)] = b.zip[ZipPath(item.href)]
  /\ \A k \in 1..Len(b.navigation.navs) :
        \A anchor \in Range(b.navigation.navs[k].items) :
           (anchor.href # <<>> /\ SplitHash0(anchor.href) \notin gone) =>
              /\ k <= Len(navigation.navs)
              /\ \E kept \in Range(navigation.navs[k].items) :
                    kept.href = anchor.href
  /\ \A point \in Range(b.ncx.points) :
        (point.src # <<>> /\ SplitHash0(point.src) \notin gone) =>
           \E kept \in Range(ncx.points) : kept.src = point.src

\* C28: the removal of an element changes nothing that belongs to another
\* file: each manifest entry, spine itemref, archive file, navigation anchor
\* and NCX navPoint of a file that is not the element's, not one of its
\* chapter unit and not a descendant's is still there as it was, whatever
\* the other files are called.
C28_OtherFilesUntouched ==
  (/\ call.op = "removeContentElement" /\ ~call.threw
   /\ ContentFor(pre, call.arg) # NoContent) =>
     OtherFilesKept(pre, FilesOfRemoval(pre, ContentFor(pre, call.arg)))

\* element e of the tree of b is an element of the tree now
StillInTree(e) == \E el \in Range(contents) : el.href = e.href

\* the manifest entry and the archive file that b has for the file of e are
\* in the book now
FileStillThere(b, e) ==
  /\ \A item \in Range(b.manifest) :
        item.href = SplitHash0(e.href) => item \in Range(manifest)
  /\ ZipPath(SplitHash0(e.href)) \in DOMAIN b.zip
        => ZipPath(SplitHash0(e.href)) \in DOMAIN zip

\* C29: what the caller asks to keep survives: after removeExceptWhere(f)
\* each top-level element that f accepts is in the tree, with the manifest
\* entry and the archive file of its file; after removeExcept(keep) each
\* element that an entry of keep denotes, by id or by flat index, top-level
\* or nested, is in the tree.
C29_KeptElementsSurvive ==
  /\ (call.op = "removeExceptWhere" /\ ~call.threw) =>
        \A k \in call.arg :
           LET Kept(e) == StillInTree(e) /\ FileStillThere(pre, e)
           IN Kept(TopContents(pre)[k])
  /\ (call.op = "removeExcept" /\ ~call.threw) =>
        \A e \in Named(pre, call.arg) : StillInTree(e)

----------------------------------------------------------------------------
(* Books whose NCX has playOrder attributes on some navPoints only, with    *)
(* numbers that are not 1, 2, ..., n.                                       *)

\* b with the playOrder 2i on the navPoints at the positions in carrying and
\* none on the others
WithPlayOrder(b, carrying) ==
  LET Written(nx) ==
        [b EXCEPT !.ncx = nx,
                  !.zip = ZipWrite(b.zip, ZipPath(NcxHref), NcxFile(nx))]
  IN Written([b.ncx EXCEPT !.points =
                [i \in 1..Len(b.ncx.points) |->
                   [b.ncx.points[i] EXCEPT
                      !.po = IF i \in carrying THEN 2 * i ELSE 0]]])

InitPlayOrder ==
  \E toc \in Tocs, layout \in {"ncx", "both"} :
     \E carrying \in SUBSET (1..Len(toc)) :
        Loaded(WithPlayOrder(MkBook(toc, layout), carrying))

NextPlayOrder ==
  \/ RemoveContentElement
  \/ InsertContent
  \/ AppendContent
  \/ PrependContent
  \/ GetOutput

SpecPlayOrder == InitPlayOrder /\ [][NextPlayOrder]_vars

\* the navPoints of the NCX file of archive z
NcxPointsOf(z) ==
  IF ZipPath(NcxHref) \in DOMAIN z THEN z[ZipPath(NcxHref)].items ELSE <<>>

\* C30: when a navPoint of the NCX carries a playOrder, whichever it is, the
\* NCX of the archive that getOutput returns has the playOrder 1, 2, ..., n
\* on its navPoints in document order, after insertions and removals too.
C30_PlayOrderRenumbered ==
  (/\ call.op = "getOutput"
   /\ pre.ncx.present
   /\ \E point \in Range(pre.ncx.points) : point.po # 0) =>
     \A i \in 1..Len(NcxPointsOf(call.ret)) : NcxPointsOf(call.ret)[i].po = i


====
